---- MODULE Spec2Model ----
(***************************************************************************)
(* Model of scripts/tag_jlpt.py: build_vocab_map, check_meaning_overlap    *)
(* and main (the database annotator).                                      *)
(*                                                                         *)
(* A Python str is a sequence of one-character strings, so that strip,     *)
(* split, join, lower, sorted and the substring test are computed rather   *)
(* than assumed.  Python's None is the distinguished value None.           *)
(***************************************************************************)
EXTENDS Integers, Sequences, FiniteSets, TLC

VARIABLES
    csv,            \* the CSV directory: level -> rows of VocabList.<level>.csv (absent level = no file)
    disk,           \* committed contents of dict_index: rowid -> [kanji, reading, meaning, tags]
    disk0,          \* contents of dict_index when the current run started
    txn,            \* dict_index as the open connection sees it (pending changes included)
    conn,           \* TRUE while conn is an open connection
    pc,             \* position in main
    vocab_map,      \* result of build_vocab_map
    updates,        \* the list of (new_tags, rowid)
    applied,        \* how many items of updates executemany has executed
    processed_count,
    lvl,            \* lvl of the last loop iteration (None when no match)
    match_type,     \* match_type of the last loop iteration
    counts,         \* the six match/tag counters
    log,            \* the messages printed that name an outcome
    exit_status,    \* the process's exit status (-1 while running)
    prev_committed, \* TRUE when this run follows a run of the script that committed its updates
    fs,             \* which of the CSV directory and the database file exist
    gloss,          \* check_meaning_overlap's argument db_meaning      (SpecOverlap)
    meanings,       \* check_meaning_overlap's argument csv_english_set (SpecOverlap)
    result          \* check_meaning_overlap's return value             (SpecOverlap)

vars == << csv, disk, disk0, txn, conn, pc, vocab_map, updates, applied,
           processed_count, lvl, match_type, counts, log, exit_status,
           prev_committed, fs, gloss, meanings, result >>

-----------------------------------------------------------------------------
(* Python values *)

None == << "<None>" >>

\* truth value of an optional str: None and "" are falsy
Truthy(s) == s # None /\ s # << >>

\* ord(c) for the characters the model uses
Ord(c) ==
    CASE c = " " -> 32  [] c = "," -> 44
      [] c = "1" -> 49  [] c = "2" -> 50  [] c = "3" -> 51  [] c = "4" -> 52  [] c = "5" -> 53
      [] c = "A" -> 65  [] c = "B" -> 66  [] c = "J" -> 74  [] c = "K" -> 75  [] c = "L" -> 76
      [] c = "N" -> 78  [] c = "P" -> 80  [] c = "Q" -> 81  [] c = "R" -> 82  [] c = "T" -> 84
      [] c = "a" -> 97  [] c = "b" -> 98  [] c = "x" -> 120 [] c = "y" -> 121

IsSpace(c) == c = " "

\* str.lower() on one character
LowerChar(c) == CASE c = "A" -> "a" [] c = "B" -> "b" [] OTHER -> c

\* str.lower()
Lower(s) == [i \in 1..Len(s) |-> LowerChar(s[i])]

RECURSIVE LStrip(_)
LStrip(s) == IF s # << >> /\ IsSpace(Head(s)) THEN LStrip(Tail(s)) ELSE s

RECURSIVE RStrip(_)
RStrip(s) ==
    IF s # << >> /\ IsSpace(s[Len(s)]) THEN RStrip(SubSeq(s, 1, Len(s) - 1)) ELSE s

\* str.strip()
Strip(s) == RStrip(LStrip(s))

\* needle in haystack (Python's substring test; "" is in every str)
Contains(haystack, needle) ==
    \E i \in 0..(Len(haystack) - Len(needle)) :
        SubSeq(haystack, i + 1, i + Len(needle)) = needle

\* s.split(","): the list of the pieces between commas (never empty)
RECURSIVE SplitFrom(_, _, _)
SplitFrom(s, i, piece) ==
    IF i > Len(s) THEN << piece >>
    ELSE IF s[i] = "," THEN << piece >> \o SplitFrom(s, i + 1, << >>)
    ELSE SplitFrom(s, i + 1, Append(piece, s[i]))

Split(s) == SplitFrom(s, 1, << >>)

\* a < b for str (lexicographic by code point)
RECURSIVE StrLess(_, _)
StrLess(a, b) ==
    IF b = << >> THEN FALSE
    ELSE IF a = << >> THEN TRUE
    ELSE IF Ord(Head(a)) # Ord(Head(b)) THEN Ord(Head(a)) < Ord(Head(b))
    ELSE StrLess(Tail(a), Tail(b))

\* sorted(list(S)) for a set of str
RECURSIVE Sorted(_)
Sorted(S) ==
    IF S = {} THEN << >>
    ELSE LET m == CHOOSE x \in S : \A y \in S \ {x} : StrLess(x, y)
         IN  << m >> \o Sorted(S \ {m})

\* Join with the wrong separator
RECURSIVE JoinBlank(_)
JoinBlank(l) ==
    IF l = << >> THEN << >>
    ELSE IF Len(l) = 1 THEN l[1]
    ELSE l[1] \o << " " >> \o JoinBlank(Tail(l))

\* ",".join(list)
RECURSIVE Join(_)
Join(l) ==
    IF l = << >> THEN << >>
    ELSE IF Len(l) = 1 THEN l[1]
    ELSE l[1] \o << "," >> \o Join(Tail(l))

-----------------------------------------------------------------------------
(* Configuration *)

N1 == << "N", "1" >>
N2 == << "N", "2" >>
N3 == << "N", "3" >>
N4 == << "N", "4" >>
N5 == << "N", "5" >>

JLPT_LEVELS == << N5, N4, N3, N2, N1 >>

-----------------------------------------------------------------------------
(* build_vocab_map *)

\* the lookup keys of a row: kanji if present, kana if present and different
RowKeys(kanji, kana) ==
    (IF kanji # << >> THEN {kanji} ELSE {})
        \cup (IF kana # << >> /\ (kana # kanji \/ kanji = << >>) THEN {kana} ELSE {})

\* intermediate_vocab[key]['levels'].add(lvl); ...['english'].add(english), for key in keys
AddKeys(iv, keys, level, english) ==
    [k \in (DOMAIN iv) \cup keys |->
        IF k \in keys
        THEN [levels  |-> (IF k \in DOMAIN iv THEN iv[k].levels ELSE {}) \cup {level},
              english |-> (IF k \in DOMAIN iv THEN iv[k].english ELSE {}) \cup {english}]
        ELSE iv[k]]

\* one iteration of "for i, row in enumerate(reader)"
ReadRow(iv, level, row) ==
    IF Len(row) < 3 THEN iv
    ELSE LET kanji   == Strip(row[1])
             kana    == Strip(row[2])
             english == Strip(row[3])
         IN  IF ~(kanji # << >> \/ kana # << >>) \/ english = << >> THEN iv
             ELSE IF RowKeys(kanji, kana) = {} THEN iv
             ELSE AddKeys(iv, RowKeys(kanji, kana), level, english)

RECURSIVE ReadFile(_, _, _)
ReadFile(iv, level, rows) ==
    IF rows = << >> THEN iv
    ELSE ReadFile(ReadRow(iv, level, Head(rows)), level, Tail(rows))

\* "for lvl in JLPT_LEVELS": a level whose file is missing is skipped
RECURSIVE ReadLevels(_, _, _)
ReadLevels(iv, levels, dir) ==
    IF levels = << >> THEN iv
    ELSE ReadLevels(IF Head(levels) \in DOMAIN dir
                    THEN ReadFile(iv, Head(levels), dir[Head(levels)])
                    ELSE iv,
                    Tail(levels), dir)

\* int(level_str[1:])
level_key_func(level_str) == Ord(level_str[2]) - 48

level_sort_reverse == TRUE

\* sorted(list(S), key=level_key_func, reverse=reverse)
RECURSIVE SortedLevels(_, _)
SortedLevels(S, reverse) ==
    IF S = {} THEN << >>
    ELSE LET first == CHOOSE x \in S : \A y \in S :
                          IF reverse THEN level_key_func(x) >= level_key_func(y)
                                     ELSE level_key_func(x) <= level_key_func(y)
         IN  << first >> \o SortedLevels(S \ {first}, reverse)

\* final_level = sorted_levels[0]
FinalLevel(levels) == SortedLevels(levels, level_sort_reverse)[1]

\* the resolution loop over intermediate_vocab
Resolve(iv) ==
    [k \in {key \in DOMAIN iv : iv[key].levels # {}} |->
        [level |-> FinalLevel(iv[k].levels), english |-> iv[k].english]]

build_vocab_map(dir) == Resolve(ReadLevels(<< >>, JLPT_LEVELS, dir))

-----------------------------------------------------------------------------
(* check_meaning_overlap *)

\* check_meaning_overlap comparing without lower-casing the database meaning
check_meaning_overlap_cased(db_meaning, csv_english_set) ==
    IF ~Truthy(db_meaning) \/ csv_english_set = {} THEN FALSE
    ELSE \E csv_eng \in csv_english_set : Contains(db_meaning, Lower(csv_eng))

check_meaning_overlap(db_meaning, csv_english_set) ==
    IF ~Truthy(db_meaning) \/ csv_english_set = {} THEN FALSE
    ELSE \E csv_eng \in csv_english_set :
            Contains(Lower(db_meaning), Lower(csv_eng))

-----------------------------------------------------------------------------
(* main: the matching logic and the tagging logic of one loop iteration *)

KanjiMatch(vm, e)    == Truthy(e.kanji) /\ e.kanji \in DOMAIN vm
KanaOnlyMatch(vm, e) == ~Truthy(e.kanji) /\ Truthy(e.reading) /\ e.reading \in DOMAIN vm
Ambiguous(vm, e)     == Truthy(e.kanji) /\ Truthy(e.reading) /\ e.reading \in DOMAIN vm

\* Match with the reading looked up before the kanji
MatchReadingFirst(vm, e) ==
    IF Truthy(e.reading) /\ e.reading \in DOMAIN vm
    THEN [lvl |-> vm[e.reading].level, match_type |-> "Kana-Only DB Entry Match",
          counter |-> "match_kana_only_count"]
    ELSE IF KanjiMatch(vm, e)
    THEN [lvl |-> vm[e.kanji].level, match_type |-> "Kanji Match",
          counter |-> "match_kanji_count"]
    ELSE [lvl |-> None, match_type |-> "No Match", counter |-> "no_match_count"]

\* the if / elif / elif / else chain: the level, the match type and the counter it increments
Match(vm, e) ==
    IF KanjiMatch(vm, e)
    THEN [lvl |-> vm[e.kanji].level, match_type |-> "Kanji Match",
          counter |-> "match_kanji_count"]
    ELSE IF KanaOnlyMatch(vm, e)
    THEN [lvl |-> vm[e.reading].level, match_type |-> "Kana-Only DB Entry Match",
          counter |-> "match_kana_only_count"]
    ELSE IF Ambiguous(vm, e)
    THEN IF check_meaning_overlap(e.meaning, vm[e.reading].english)
         THEN [lvl |-> vm[e.reading].level,
               match_type |-> "Ambiguous (Reading Match on Kanji Entry) -> Meaning OK",
               counter |-> "match_ambiguous_meaning_ok_count"]
         ELSE [lvl |-> None,
               match_type |-> "Ambiguous (Reading Match on Kanji Entry) -> Meaning FAILED",
               counter |-> "match_ambiguous_meaning_fail_count"]
    ELSE [lvl |-> None, match_type |-> "No Match", counter |-> "no_match_count"]

\* set(t.strip() for t in (db_tags or "").split(",") if t.strip())
TagItems(db_tags) ==
    LET pieces == Split(IF Truthy(db_tags) THEN db_tags ELSE << >>)
    IN  {Strip(pieces[i]) : i \in {j \in 1..Len(pieces) : Strip(pieces[j]) # << >>}}

\* f"JLPT{lvl}"
JlptTag(level) == << "J", "L", "P", "T" >> \o level

\* AlreadyTagged with the test left out
NeverTagged(tag_items, jlpt_tag) == FALSE

\* "if jlpt_tag in tag_items"
AlreadyTagged(tag_items, jlpt_tag) == jlpt_tag \in tag_items

\* NewTags that overwrites the stored tags
OnlyNewTag(tag_items, jlpt_tag) == jlpt_tag

\* ",".join(sorted(list(tag_items + jlpt_tag)))
NewTags(tag_items, jlpt_tag) == Join(Sorted(tag_items \cup {jlpt_tag}))


\* the tagging logic: the updates list after the iteration for (rowid, db_tags) with level lvl
QueueUpdate(upd, level, db_tags, rowid) ==
    IF level = None THEN upd
    ELSE IF AlreadyTagged(TagItems(db_tags), JlptTag(level)) THEN upd
    ELSE Append(upd, << NewTags(TagItems(db_tags), JlptTag(level)), rowid >>)

-----------------------------------------------------------------------------
(* sqlite3: the connection's view of dict_index and the committed contents *)

\* ExecuteUpdate without the WHERE clause
ExecuteUpdateAllRows(view, u) == [r \in DOMAIN view |-> [view[r] EXCEPT !.tags = u[1]]]

\* "UPDATE dict_index SET tags = ? WHERE rowid = ?" with parameters u = (new_tags, rowid)
ExecuteUpdate(view, u) ==
    [r \in DOMAIN view |-> IF r = u[2] THEN [view[r] EXCEPT !.tags = u[1]] ELSE view[r]]

\* Durable for a connection in autocommit mode
DurableAutocommit(committed, view) == view

\* committed contents after an UPDATE is executed: the connection is not in
\* autocommit mode, the UPDATE opens a transaction and stays pending
Durable(committed, view) == committed

\* committed contents after conn.commit()
Committed(committed, view) == view

\* the connection's view after conn.rollback()
RolledBack(committed, view) == committed

\* committed contents after conn.close(): pending changes are discarded
Closed(committed, view) == committed

-----------------------------------------------------------------------------
(* Inputs *)

MaxRows == 2        \* rows in the CSV directory, all files together
MaxEntries == 2     \* rows of dict_index

\* CSV rows: kanji and kana; kana only, with surrounding blanks; kanji only
RowPool ==
    << << << "K" >>, << "R" >>, << "a" >> >>,
       << << " " >>, << "R", " " >>, << "B" >> >>,
       << << "K" >>, << >>, << "a" >> >> >>

\* the levels whose VocabList file may exist
InputLevels == {N5, N3}

\* a directory is given by the (level, row) pairs its files hold; a file
\* lists its rows in the order of RowPool
Slots == InputLevels \X (1..Len(RowPool))

FileOf(S, level) ==
    LET picked == {i \in 1..Len(RowPool) : << level, i >> \in S}
        Pick(row) == \E i \in picked : RowPool[i] = row
    IN  SelectSeq(RowPool, Pick)

DirOf(S) == [level \in {slot[1] : slot \in S} |-> FileOf(S, level)]

CsvInputs == {DirOf(S) : S \in {T \in SUBSET Slots : Cardinality(T) <= MaxRows}}

EntryPool ==
    [kanji   : {None, << "K" >>, << "Q" >>},
     reading : {<< "R" >>},
     meaning : {<< "x", "A" >>},
     tags    : {None, << " ", "x", ",", ",", "J", "L", "P", "T", "N", "5", " " >>}]

Dbs == UNION {[1..n -> EntryPool] : n \in 0..MaxEntries}

ZeroCounts ==
    [match_kanji_count |-> 0, match_kana_only_count |-> 0,
     match_ambiguous_meaning_ok_count |-> 0, match_ambiguous_meaning_fail_count |-> 0,
     already_tagged_count |-> 0, no_match_count |-> 0]

-----------------------------------------------------------------------------
(* main *)

Init ==
    /\ fs \in [csv_dir : BOOLEAN, db_file : BOOLEAN]
    /\ csv \in (IF fs.csv_dir THEN CsvInputs ELSE {<< >>})
    /\ disk \in (IF fs.db_file THEN Dbs ELSE {<< >>})
    /\ prev_committed = FALSE
    /\ pc = "start"
    /\ conn = FALSE
    /\ txn = disk
    /\ disk0 = disk
    /\ vocab_map = << >>
    /\ updates = << >>
    /\ applied = 0
    /\ processed_count = 0
    /\ lvl = None
    /\ match_type = "No Match"
    /\ counts = ZeroCounts
    /\ log = {}
    /\ exit_status = -1
    /\ gloss = None /\ meanings = {} /\ result = FALSE

\* sys.exit(status), or main returning (status 0)
Exit(status, message) ==
    /\ pc' = "exited"
    /\ exit_status' = status
    /\ log' = log \cup {message}

\* lines 152-157: the two os.path checks
Preflight ==
    /\ pc = "start"
    /\ IF ~fs.csv_dir THEN Exit(1, "CSV directory not found")
       ELSE IF ~fs.db_file THEN Exit(1, "Database file not found")
       ELSE pc' = "build" /\ UNCHANGED << exit_status, log >>
    /\ UNCHANGED << csv, disk, disk0, txn, conn, vocab_map, updates, applied,
                    processed_count, lvl, match_type, counts, prev_committed, fs,
                    gloss, meanings, result >>

\* lines 160-164
Build ==
    /\ pc = "build"
    /\ vocab_map' = build_vocab_map(csv)
    /\ IF vocab_map' = << >> THEN Exit(1, "Vocabulary map is empty")
       ELSE pc' = "connect" /\ UNCHANGED << exit_status, log >>
    /\ UNCHANGED << csv, disk, disk0, txn, conn, updates, applied,
                    processed_count, lvl, match_type, counts, prev_committed, fs,
                    gloss, meanings, result >>

\* lines 178-185: connect, cursor, SELECT
Connect ==
    /\ pc = "connect"
    /\ conn' = TRUE
    /\ txn' = disk
    /\ pc' = "scan"
    /\ UNCHANGED << csv, disk, disk0, vocab_map, updates, applied,
                    processed_count, lvl, match_type, counts, log, exit_status,
                    prev_committed, fs, gloss, meanings, result >>

\* lines 189-272: one iteration of "for row in c"
ProcessEntry ==
    /\ pc = "scan"
    /\ processed_count < Len(txn)
    /\ LET rowid == processed_count + 1
           e     == txn[rowid]
           m     == Match(vocab_map, e)
       IN  /\ processed_count' = rowid
           /\ lvl' = m.lvl
           /\ match_type' = m.match_type
           /\ updates' = QueueUpdate(updates, m.lvl, e.tags, rowid)
           /\ counts' =
                LET c1 == [counts EXCEPT ![m.counter] = @ + 1]
                IN  IF m.lvl # None /\ AlreadyTagged(TagItems(e.tags), JlptTag(m.lvl))
                    THEN [c1 EXCEPT !.already_tagged_count = @ + 1]
                    ELSE c1
    /\ UNCHANGED << csv, disk, disk0, txn, conn, pc, vocab_map, applied, log,
                    exit_status, prev_committed, fs, gloss, meanings, result >>

\* lines 274-292 and 300-303: the cursor is exhausted
FinishScan ==
    /\ pc = "scan"
    /\ processed_count = Len(txn)
    /\ IF updates # << >>
       THEN pc' = "apply" /\ UNCHANGED << disk, txn, conn, log, exit_status >>
       ELSE /\ Exit(0, "No entries required updating")
            /\ disk' = Closed(disk, txn)
            /\ txn' = disk'
            /\ conn' = FALSE
    /\ UNCHANGED << csv, disk0, vocab_map, updates, applied, processed_count,
                    lvl, match_type, counts, prev_committed, fs, gloss, meanings, result >>

\* line 288: executemany executes the UPDATE for the next item of updates
ExecuteOne ==
    /\ pc = "apply"
    /\ applied < Len(updates)
    /\ txn' = ExecuteUpdate(txn, updates[applied + 1])
    /\ disk' = Durable(disk, txn')
    /\ applied' = applied + 1
    /\ UNCHANGED << csv, disk0, conn, pc, vocab_map, updates,
                    processed_count, lvl, match_type, counts, log, exit_status,
                    prev_committed, fs, gloss, meanings, result >>

\* lines 289-290 and 300-303: commit, close, return
Commit ==
    /\ pc = "apply"
    /\ applied = Len(updates)
    /\ disk' = Closed(Committed(disk, txn), txn)
    /\ txn' = disk'
    /\ conn' = FALSE
    /\ Exit(0, "Successfully committed")
    /\ UNCHANGED << csv, disk0, vocab_map, updates, applied, processed_count,
                    lvl, match_type, counts, prev_committed, fs, gloss, meanings, result >>

\* lines 294-297 and 300-303: a call of sqlite3 raises sqlite3.Error
DatabaseError ==
    /\ pc \in {"connect", "scan", "apply"}
    /\ disk' = (IF conn THEN Closed(disk, RolledBack(disk, txn)) ELSE disk)
    /\ txn' = disk'
    /\ conn' = FALSE
    /\ Exit(0, "Database error")
    /\ UNCHANGED << csv, disk0, vocab_map, updates, applied, processed_count,
                    lvl, match_type, counts, prev_committed, fs, gloss, meanings, result >>

\* lines 298-303: the loop body raises another exception (no rollback)
UnexpectedError ==
    /\ pc = "scan"
    /\ processed_count < Len(txn)
    /\ disk' = Closed(disk, txn)
    /\ txn' = disk'
    /\ conn' = FALSE
    /\ Exit(0, "An unexpected error occurred")
    /\ UNCHANGED << csv, disk0, vocab_map, updates, applied, processed_count,
                    lvl, match_type, counts, prev_committed, fs, gloss, meanings, result >>

\* the script is run again on the same word lists and the database as it now is
Rerun ==
    /\ pc = "exited"
    /\ prev_committed' = ("Successfully committed" \in log)
    /\ pc' = "start"
    /\ conn' = FALSE
    /\ txn' = disk
    /\ disk0' = disk
    /\ vocab_map' = << >>
    /\ updates' = << >>
    /\ applied' = 0
    /\ processed_count' = 0
    /\ lvl' = None
    /\ match_type' = "No Match"
    /\ counts' = ZeroCounts
    /\ log' = {}
    /\ exit_status' = -1
    /\ UNCHANGED << csv, disk, fs, gloss, meanings, result >>

Next ==
    \/ Preflight
    \/ Build
    \/ Connect
    \/ ProcessEntry
    \/ FinishScan
    \/ ExecuteOne
    \/ Commit
    \/ DatabaseError
    \/ UnexpectedError
    \/ Rerun

Spec == Init /\ [][Next]_vars


-----------------------------------------------------------------------------
(* check_meaning_overlap called on its own *)

MaxStrLen == 2      \* length of a gloss or of a meaning
MaxMeanings == 2    \* size of the meaning set

Alphabet == {"a", "A", "b"}

Strs == UNION {[1..n -> Alphabet] : n \in 0..MaxStrLen}

\* the sets of at most n strings
RECURSIVE SetsUpTo(_)
SetsUpTo(n) ==
    IF n = 0 THEN {{}}
    ELSE LET smaller == SetsUpTo(n - 1)
         IN  smaller \cup {M \cup {x} : M \in smaller, x \in Strs}

InitOverlap ==
    /\ gloss \in Strs \cup {None}
    /\ meanings \in SetsUpTo(MaxMeanings)
    /\ result = FALSE
    /\ pc = "call"
    /\ fs = [csv_dir |-> FALSE, db_file |-> FALSE]
    /\ csv = << >> /\ disk = << >> /\ disk0 = << >> /\ txn = << >>
    /\ conn = FALSE /\ vocab_map = << >> /\ updates = << >> /\ applied = 0
    /\ processed_count = 0 /\ lvl = None /\ match_type = "No Match"
    /\ counts = ZeroCounts /\ log = {} /\ exit_status = -1 /\ prev_committed = FALSE

CallOverlap ==
    /\ pc = "call"
    /\ result' = check_meaning_overlap(gloss, meanings)
    /\ pc' = "returned"
    /\ UNCHANGED << csv, disk, disk0, txn, conn, vocab_map, updates, applied,
                    processed_count, lvl, match_type, counts, log, exit_status,
                    prev_committed, fs, gloss, meanings >>

NextOverlap == CallOverlap

SpecOverlap == InitOverlap /\ [][NextOverlap]_vars

-----------------------------------------------------------------------------
(* Provenance of an index key, as the specification of the index describes it *)

\* the provenance records {tier, primaryForm} of key, in insertion order
RECURSIVE FileProvenance(_, _, _)
FileProvenance(level, rows, key) ==
    IF rows = << >> THEN << >>
    ELSE LET row == Head(rows)
             rec == IF Len(row) >= 3 /\ Strip(row[3]) # << >>
                       /\ key \in RowKeys(Strip(row[1]), Strip(row[2]))
                    THEN << [tier |-> level, primaryForm |-> Strip(row[1])] >>
                    ELSE << >>
         IN  rec \o FileProvenance(level, Tail(rows), key)

RECURSIVE Provenance(_, _, _)
Provenance(levels, dir, key) ==
    IF levels = << >> THEN << >>
    ELSE (IF Head(levels) \in DOMAIN dir
          THEN FileProvenance(Head(levels), dir[Head(levels)], key) ELSE << >>)
         \o Provenance(Tail(levels), dir, key)

\* the most-advanced tier of a set of tiers: N1 before N2 ... before N5
MostAdvanced(tiers) ==
    CHOOSE t \in tiers : \A u \in tiers : level_key_func(t) <= level_key_func(u)

\* primaryForm of the first provenance record of the most-advanced tier ("" when absent)
SourceForm(dir, key) ==
    LET prov == Provenance(JLPT_LEVELS, dir, key)
        tier == MostAdvanced({prov[i].tier : i \in 1..Len(prov)})
        at   == {i \in 1..Len(prov) : prov[i].tier = tier}
    IN  IF prov = << >> THEN << >>
        ELSE prov[CHOOSE i \in at : \A j \in at : i <= j].primaryForm

-----------------------------------------------------------------------------
(* Properties *)

\* the level the matching logic produces for the entry stored under rowid
Candidate(rowid) == Match(vocab_map, disk0[rowid]).lvl

\* the positions in updates of the writes queued for rowid
WritesFor(rowid) == {i \in 1..Len(updates) : updates[i][2] = rowid}

\* the entries the loop has processed in this run
Scanned == 1..processed_count

Levels == {JLPT_LEVELS[i] : i \in 1..Len(JLPT_LEVELS)}

\* the levels whose JLPT tag is among the stored tags
StoredLevels(db_tags) == {l \in Levels : JlptTag(l) \in TagItems(db_tags)}

\* the table with every queued write applied
AllWritten(table, upd) ==
    [r \in DOMAIN table |->
        IF \E i \in 1..Len(upd) : upd[i][2] = r
        THEN [table[r] EXCEPT !.tags = upd[CHOOSE i \in 1..Len(upd) : upd[i][2] = r][1]]
        ELSE table[r]]

\* n occurs in h as a contiguous substring
IsSubstring(n, h) == \E a, b \in 0..Len(h) : SubSeq(h, a + 1, b) = n

\* C1 (idempotence): a run that follows a run that committed, on the same word
\* lists and the database that run left, queues no write, and counts every
\* entry that produces a candidate as already tagged.
Idempotence ==
    prev_committed =>
        /\ updates = << >>
        /\ counts.already_tagged_count =
               counts.match_kanji_count + counts.match_kana_only_count
                   + counts.match_ambiguous_meaning_ok_count

\* a second run has finished after a run that committed, and met candidates
IdempotenceWitness ==
    /\ prev_committed
    /\ pc = "exited"
    /\ "No entries required updating" \in log
    /\ counts.already_tagged_count > 0

\* C2 (mismatch safety): no write is queued for an entry whose primary form is
\* not an index key, whose reading is an index key, and whose primary form
\* differs from the non-empty source form recorded for that reading.
MismatchSafety ==
    \A r \in Scanned :
        LET e == disk0[r]
        IN  (/\ Truthy(e.kanji) /\ e.kanji \notin DOMAIN vocab_map
             /\ Truthy(e.reading) /\ e.reading \in DOMAIN vocab_map
             /\ SourceForm(csv, e.reading) # << >>
             /\ SourceForm(csv, e.reading) # e.kanji)
            => WritesFor(r) = {}

\* C3 (tier priority): every key of the index has the most-advanced tier among
\* the lists whose rows mention it.
TierPriority ==
    pc \in {"connect", "scan", "apply"} =>
        \A k \in DOMAIN vocab_map :
            vocab_map[k].level = MostAdvanced(ReadLevels(<< >>, JLPT_LEVELS, csv)[k].levels)

\* C4 (no downgrade of untouched entries): an entry that produces no candidate
\* has no queued write, and its stored row is what it was when the run started,
\* in the committed table and in the connection's view.
NoDowngrade ==
    pc \notin {"start", "build"} =>
        \A r \in DOMAIN disk0 :
            Candidate(r) = None =>
                /\ WritesFor(r) = {}
                /\ disk[r] = disk0[r]
                /\ txn[r] = disk0[r]

\* a run committed writes while an entry with stored tags produced no candidate
NoDowngradeWitness ==
    /\ pc = "exited"
    /\ "Successfully committed" \in log
    /\ \E r \in DOMAIN disk0 : Candidate(r) = None /\ Truthy(disk0[r].tags)

\* C5 (all-or-nothing commit): the committed table is the table the run started
\* with, or that table with every queued write applied, and the latter only
\* after the single commit; after a database error it is the former.
AllOrNothing ==
    LET all == AllWritten(disk0, updates)
    IN  /\ disk = disk0 \/ disk = all
        /\ disk # disk0 => "Successfully committed" \in log
        /\ "Successfully committed" \in log => disk = all
        /\ "Database error" \in log => disk = disk0

\* a database error struck after a strict non-empty part of the batch was executed
AllOrNothingWitness ==
    /\ pc = "exited"
    /\ "Database error" \in log
    /\ 0 < applied /\ applied < Len(updates)
    /\ AllWritten(disk0, updates) # disk0

\* the messages of the fatal conditions
FatalMessages ==
    {"CSV directory not found", "Database file not found",
     "Vocabulary map is empty", "Database error"}

\* C6 (exit status): the exit status is zero exactly when no fatal condition
\* (missing directory, missing database, empty index, database error) occurred;
\* in particular it is non-zero after a database error.
ExitStatus ==
    pc = "exited" => (exit_status = 0 <=> log \cap FatalMessages = {})

OverlapIff ==
    pc = "returned" =>
        /\ gloss # None =>
               (result <=> \E m \in meanings : IsSubstring(Lower(m), Lower(gloss)))
        /\ (~Truthy(gloss) \/ meanings = {}) => ~result

\* C8 as amended: the result is true exactly when the gloss is neither absent
\* nor empty and some member of the meanings, lower-cased, is a substring of
\* the lower-cased gloss.
OverlapCorrect ==
    pc = "returned" =>
        (result <=> /\ Truthy(gloss)
                    /\ \E m \in meanings : IsSubstring(Lower(m), Lower(gloss)))

\* a match found only thanks to lower-casing
OverlapWitness ==
    /\ pc = "returned"
    /\ result
    /\ \A m \in meanings : ~IsSubstring(m, gloss)

\* C9 (rule precedence): an iteration for an entry whose non-empty primary form
\* is an index key sets the level indexed under the primary form and increments
\* the primary-form counter and no other match counter.
RulePrecedence ==
    [][(pc = "scan" /\ processed_count' = processed_count + 1) =>
          LET e == txn[processed_count']
          IN  (Truthy(e.kanji) /\ e.kanji \in DOMAIN vocab_map) =>
                  /\ lvl' = vocab_map[e.kanji].level
                  /\ match_type' = "Kanji Match"
                  /\ counts'.match_kanji_count = counts.match_kanji_count + 1
                  /\ counts'.match_kana_only_count = counts.match_kana_only_count
                  /\ counts'.match_ambiguous_meaning_ok_count
                         = counts.match_ambiguous_meaning_ok_count
                  /\ counts'.match_ambiguous_meaning_fail_count
                         = counts.match_ambiguous_meaning_fail_count
                  /\ counts'.no_match_count = counts.no_match_count]_vars

\* the last entry processed matched by primary form while its reading is
\* indexed under another level
RulePrecedenceWitness ==
    /\ pc = "scan"
    /\ processed_count > 0
    /\ LET e == txn[processed_count]
       IN  /\ Truthy(e.kanji) /\ e.kanji \in DOMAIN vocab_map
           /\ Truthy(e.reading) /\ e.reading \in DOMAIN vocab_map
           /\ vocab_map[e.reading].level # vocab_map[e.kanji].level
           /\ lvl = vocab_map[e.kanji].level
           /\ counts.match_kanji_count > 0

\* C10 (existing tags are preserved): the tags of a queued write are the stored
\* tags of its entry plus the one tag of the candidate level, which was not
\* stored, and no entry has two queued writes.
TagsPreserved ==
    /\ \A i \in 1..Len(updates) :
          LET r      == updates[i][2]
              c      == Candidate(r)
              stored == TagItems(disk0[r].tags)
          IN  /\ r \in Scanned
              /\ c # None
              /\ JlptTag(c) \notin stored
              /\ TagItems(updates[i][1]) = stored \cup {JlptTag(c)}
    /\ \A i, j \in 1..Len(updates) : updates[i][2] = updates[j][2] => i = j

\* a write is queued for an entry that stores a tag of another level and another tag
TagsPreservedWitness ==
    \E i \in 1..Len(updates) :
        /\ StoredLevels(disk0[updates[i][2]].tags) # {}
        /\ Cardinality(TagItems(disk0[updates[i][2]].tags)) >= 2
        /\ Cardinality(TagItems(updates[i][1])) >= 3

====
